---- MODULE Spec2Model ----
(***************************************************************************)
(* Greedy reactor placement (SimpleEnergySimulator.optimize_reactors of    *)
(* flask_app.py and api/index.py) and the challenge scoring built on it    *)
(* (preview_challenge, solve_challenge, calculate_user_performance of      *)
(* api/index.py).                                                          *)
(*                                                                         *)
(* Demand is held in integer tenths of a MW (10 = 1.0 MW), so the grading  *)
(* threshold 1.0 is the integer 10 and sums are exact.  A percentage or a  *)
(* score is an exact fraction <<numerator, denominator>> in lowest terms   *)
(* with a positive denominator; distances and disaster impacts are held    *)
(* in thousandths, rounded down.                                           *)
(***************************************************************************)
EXTENDS Integers, Sequences, FiniteSets, TLC

\* ---------------------------------------------------------------- bounds
MaxGrid == 3
MaxK == 3
MaxRadius == 2
ChallengeGrid == 2
MaxSites == 2
PeakGrid == 5
ConcurrentGrid == 2

\* ------------------------------------------------------------- fractions
RECURSIVE GCD(_, _)
GCD(a, b) == IF b = 0 THEN a ELSE GCD(b, a % b)

Abs(x) == IF x < 0 THEN -x ELSE x

Frac(n, d) ==
  LET g == GCD(Abs(n), d) IN <<n \div g, d \div g>>

\* comparisons and sums go through the common denominator
FracLE(a, b) ==
  LET g == GCD(a[2], b[2]) IN a[1] * (b[2] \div g) <= b[1] * (a[2] \div g)

FracLT(a, b) ==
  LET g == GCD(a[2], b[2]) IN a[1] * (b[2] \div g) < b[1] * (a[2] \div g)

FracMin(a, b) == IF FracLE(a, b) THEN a ELSE b

FracAdd(a, b) ==
  LET g == GCD(a[2], b[2])
  IN Frac(a[1] * (b[2] \div g) + b[1] * (a[2] \div g), (a[2] \div g) * b[2])

\* a / b for a >= 0 and b > 0
FracDiv(a, b) ==
  LET gn == GCD(a[1], b[1])
      gd == GCD(a[2], b[2])
  IN Frac((a[1] \div gn) * (b[2] \div gd), (a[2] \div gd) * (b[1] \div gn))

\* n * a for an integer n >= 0
FracScale(n, a) == LET g == GCD(n, a[2]) IN Frac((n \div g) * a[1], a[2] \div g)

FracInt(n) == <<n, 1>>

\* ------------------------------------------------------------ the grid
\* Python range(a, b)
range(a, b) == a .. (b - 1)

Cells(N) == range(0, N) \X range(0, N)

\* a numpy array held by value: the same grid, its entries computed once
np_array(a) == a @@ <<>>

\* np.zeros((grid_size, grid_size))
zeros(N) == np_array([c \in Cells(N) |-> 0])

RECURSIVE SumFn(_, _, _)
\* f[lo] + f[lo+1] + ... + f[hi], the accumulation of a for loop over lo..hi
SumFn(f, lo, hi) == IF lo > hi THEN 0 ELSE f[lo] + SumFn(f, lo + 1, hi)

\* np.sum(a) for a grid a
np_sum(N, a) ==
  SumFn([i \in range(0, N) |-> SumFn([j \in range(0, N) |-> a[<<i, j>>]], 0, N - 1)],
        0, N - 1)

\* set(locations): `(i, j) in locations`
InList(c, locs) == \E n \in 1 .. Len(locs) : locs[n] = c

\* ------------------------------------------- optimize_reactors: one scan
\* variant: the `di*di + dj*dj <= radius*radius` test is left out
score_term_over_square(N, disaster, cov, radius, i, j, di, dj) ==
  LET ni == i + di
      nj == j + dj
  IN IF 0 <= ni /\ ni < N /\ 0 <= nj /\ nj < N
        THEN IF cov[<<ni, nj>>] = 0 THEN disaster[<<ni, nj>>] ELSE 0
        ELSE 0

\* variant: the `coverage_map[ni, nj] == 0` test is left out
score_term_ignoring_coverage(N, disaster, cov, radius, i, j, di, dj) ==
  LET ni == i + di
      nj == j + dj
  IN IF 0 <= ni /\ ni < N /\ 0 <= nj /\ nj < N
        THEN IF di * di + dj * dj <= radius * radius THEN disaster[<<ni, nj>>] ELSE 0
        ELSE 0

\* the body of the di/dj loops for one neighbour offset of candidate (i, j)
score_term(N, disaster, cov, radius, i, j, di, dj) ==
  LET ni == i + di
      nj == j + dj
  IN IF 0 <= ni /\ ni < N /\ 0 <= nj /\ nj < N
        THEN IF di * di + dj * dj <= radius * radius
                THEN IF cov[<<ni, nj>>] = 0 THEN disaster[<<ni, nj>>] ELSE 0
                ELSE 0
        ELSE 0

\* score of candidate (i, j): for di in range(-radius, radius + 1): for dj ...
score_of(N, disaster, cov, radius, i, j) ==
  SumFn([di \in range(-radius, radius + 1) |->
           SumFn([dj \in range(-radius, radius + 1) |->
                    score_term(N, disaster, cov, radius, i, j, di, dj)],
                 -radius, radius)],
        -radius, radius)

\* variant: `>=` in place of `>`
better_or_equal(score, best_score) == score >= best_score

\* if score > best_score
better(score, best_score) == score > best_score

\* variant: best_score starts below every score
initial_best_below_zero == [best_score |-> -1, best_pos |-> <<0, 0>>]

\* variant: the default position is not the origin
initial_best_off_origin == [best_score |-> 0, best_pos |-> <<1, 1>>]

\* best_score = 0; best_pos = (0, 0) at the head of each greedy iteration
initial_best == [best_score |-> 0, best_pos |-> <<0, 0>>]

\* `if (i, j) in locations: continue`
skip_candidate(c, locs) == InList(c, locs)

\* variant: the scan runs column by column
cell_at_column_major(N, idx) == <<idx % N, idx \div N>>

\* the cell visited at step idx of `for i in range(N): for j in range(N)`
cell_at(N, idx) == <<idx \div N, idx % N>>

\* lines 95-97 for candidate c with its score
scan_step(c, score, acc) ==
  [best   |-> IF better(score, acc.best.best_score)
                 THEN [best_score |-> score, best_pos |-> c]
                 ELSE acc.best,
   scores |-> acc.scores @@ (c :> score)]

RECURSIVE scan(_, _, _, _, _, _, _)
\* the i/j loops from step idx on; acc.best is the running [best_score,
\* best_pos], acc.scores the value of `score` at line 95 for each cell scored
scan(N, disaster, cov, radius, locs, idx, acc) ==
  IF idx >= N * N THEN acc
  ELSE LET c == cell_at(N, idx)
       IN IF skip_candidate(c, locs)
             THEN scan(N, disaster, cov, radius, locs, idx + 1, acc)
             ELSE \* the visit of c is completed, c scored, before the next cell
                  LET visited == scan_step(c, score_of(N, disaster, cov, radius, c[1], c[2]),
                                           acc)
                  IN IF c \in DOMAIN visited.scores
                        THEN scan(N, disaster, cov, radius, locs, idx + 1, visited)
                        ELSE visited

\* variant: the whole square of offsets is marked, corners included
update_coverage_square(N, cov, radius, pos) ==
  np_array([c \in Cells(N) |->
     LET di == c[1] - pos[1]
         dj == c[2] - pos[2]
     IN IF /\ di \in range(-radius, radius + 1)
           /\ dj \in range(-radius, radius + 1)
           THEN 1
           ELSE cov[c]])

\* variant: the update flips the mark, `coverage_map[ni, nj] = 1 - coverage_map[ni, nj]`
update_coverage_toggle(N, cov, radius, pos) ==
  np_array([c \in Cells(N) |->
     LET di == c[1] - pos[1]
         dj == c[2] - pos[2]
     IN IF /\ di \in range(-radius, radius + 1)
           /\ dj \in range(-radius, radius + 1)
           /\ di * di + dj * dj <= radius * radius
           THEN 1 - cov[c]
           ELSE cov[c]])

\* variant: a covered cell counts the sites that reach it
update_coverage_counting(N, cov, radius, pos) ==
  np_array([c \in Cells(N) |->
     LET di == c[1] - pos[1]
         dj == c[2] - pos[2]
     IN IF /\ di \in range(-radius, radius + 1)
           /\ dj \in range(-radius, radius + 1)
           /\ di * di + dj * dj <= radius * radius
           THEN cov[c] + 1
           ELSE cov[c]])

\* variant: the map is rebuilt from the newest site alone
update_coverage_overwrite(N, cov, radius, pos) ==
  np_array([c \in Cells(N) |->
     LET di == c[1] - pos[1]
         dj == c[2] - pos[2]
     IN IF /\ di \in range(-radius, radius + 1)
           /\ dj \in range(-radius, radius + 1)
           /\ di * di + dj * dj <= radius * radius
           THEN 1
           ELSE 0])

\* "Update coverage map": every in-grid cell of the disc around best_pos := 1
update_coverage(N, cov, radius, pos) ==
  np_array([c \in Cells(N) |->
     LET di == c[1] - pos[1]
         dj == c[2] - pos[2]
     IN IF /\ di \in range(-radius, radius + 1)
           /\ dj \in range(-radius, radius + 1)
           /\ di * di + dj * dj <= radius * radius
           THEN 1
           ELSE cov[c]])

\* variant: a scan without a positive score places the site at the first cell
\* not chosen yet
place_at_free_cell_on_fallback(N, radius, st, acc) ==
  LET free == {idx \in 0 .. (N * N - 1) : ~InList(cell_at(N, idx), st.locations)}
      pos == IF acc.best.best_score = 0 /\ free # {}
                THEN cell_at(N, CHOOSE idx \in free : \A other \in free : idx <= other)
                ELSE acc.best.best_pos
  IN [locations    |-> Append(st.locations, pos),
      coverage_map |-> update_coverage(N, st.coverage_map, radius, pos),
      best_score   |-> acc.best.best_score,
      best_pos     |-> pos,
      scores       |-> acc.scores]

\* locations.append(best_pos) and the coverage update after a scan
place(N, radius, st, acc) ==
  [locations    |-> Append(st.locations, acc.best.best_pos),
   coverage_map |-> update_coverage(N, st.coverage_map, radius, acc.best.best_pos),
   best_score   |-> acc.best.best_score,
   best_pos     |-> acc.best.best_pos,
   scores       |-> acc.scores]

\* one pass of `for _ in range(num_reactors)`
greedy_iteration(N, disaster, radius, st) ==
  place(N, radius, st,
        scan(N, disaster, st.coverage_map, radius, st.locations, 0,
             [best |-> initial_best, scores |-> <<>>]))

\* variant: a surface without demand counts as fully covered
coverage_pct_full_when_empty(covered, total) ==
  IF total > 0 THEN Frac(100 * covered, total) ELSE FracInt(100)

\* (covered / total) * 100 if total > 0 else 0
coverage_pct(covered, total) ==
  IF total > 0 THEN Frac(100 * covered, total) ELSE FracInt(0)

\* variant: cells of at most 1.0 MW are left out of all four sums
calc_metrics_thresholded(N, normal, disaster, cov) ==
  LET counted(a) == [c \in Cells(N) |-> IF a[c] > 10 THEN a[c] ELSE 0]
      total_normal     == np_sum(N, counted(normal))
      total_disaster   == np_sum(N, counted(disaster))
      covered_normal   == np_sum(N, [c \in Cells(N) |-> counted(normal)[c] * cov[c]])
      covered_disaster == np_sum(N, [c \in Cells(N) |-> counted(disaster)[c] * cov[c]])
  IN [normal_coverage   |-> coverage_pct(covered_normal, total_normal),
      disaster_coverage |-> coverage_pct(covered_disaster, total_disaster)]

\* "Calculate metrics"
calc_metrics(N, normal, disaster, cov) ==
  LET total_normal     == np_sum(N, normal)
      total_disaster   == np_sum(N, disaster)
      covered_normal   == np_sum(N, [c \in Cells(N) |-> normal[c] * cov[c]])
      covered_disaster == np_sum(N, [c \in Cells(N) |-> disaster[c] * cov[c]])
  IN [normal_coverage   |-> coverage_pct(covered_normal, total_normal),
      disaster_coverage |-> coverage_pct(covered_disaster, total_disaster)]

\* locations = []; coverage_map = np.zeros(...)
initial_state(N) ==
  [locations |-> <<>>, coverage_map |-> zeros(N), best_score |-> 0, best_pos |-> <<0, 0>>,
   scores |-> <<>>]

\* variant: the loop runs one pass more
loop_runs_one_more(t, k) == t <= k

\* variant: one pass short
loop_stops_one_short(t, k) == t + 1 < k

\* the loop goes on while fewer than num_reactors passes have run
loop_continues(t, k) == t < k

RECURSIVE run_loop(_, _, _, _, _, _)
run_loop(N, disaster, radius, k, t, st) ==
  IF loop_continues(t, k)
     THEN run_loop(N, disaster, radius, k, t + 1, greedy_iteration(N, disaster, radius, st))
     ELSE st

\* variant: a cell's demand counts up to the capacity of one reactor
optimize_reactors_within_capacity(N, normal, disaster, k, radius, capacity) ==
  LET served == np_array([c \in Cells(N) |->
                            IF disaster[c] > 10 * capacity THEN 10 * capacity ELSE disaster[c]])
      final == run_loop(N, served, radius, k, 0, initial_state(N))
  IN [locations |-> final.locations,
      metrics   |-> calc_metrics(N, normal, disaster, final.coverage_map)]

\* optimize_reactors as a function: (locations, metrics); the argument
\* capacity is read nowhere in the body
optimize_reactors(N, normal, disaster, k, radius, capacity) ==
  LET final == run_loop(N, disaster, radius, k, 0, initial_state(N))
  IN [locations |-> final.locations,
      metrics   |-> calc_metrics(N, normal, disaster, final.coverage_map)]

\* ------------------------------------------------ create_map, simulate_disaster
\* zones: 0 = empty, 1 = residential, 2 = commercial, 3 = industrial
\* the demand create_map draws for a zone, in tenths of a MW: 0 for an empty cell,
\* else one value of random.uniform(2, 6), (4, 10), (8, 15)
zone_demand(z) ==
  CASE z = 0 -> 0
    [] z = 1 -> 20
    [] z = 2 -> 40
    [] z = 3 -> 80

\* the maps random.random() can produce, cut down to those where every cell
\* has the zone z0 in {empty, residential} except one cell that is empty,
\* residential or industrial
create_map(N) ==
  { [c \in Cells(N) |-> zone_demand(IF c = c1 THEN z1 ELSE z0)] :
      <<c1, z0, z1>> \in Cells(N) \X {0, 1} \X {0, 1, 3} }

RECURSIVE isqrt_between(_, _, _)
\* the largest r in lo .. hi with r * r <= n
isqrt_between(n, lo, hi) ==
  IF lo >= hi THEN lo
  ELSE LET mid == (lo + hi + 1) \div 2
       IN IF mid * mid <= n THEN isqrt_between(n, mid, hi)
                            ELSE isqrt_between(n, lo, mid - 1)

\* math.sqrt in thousandths, rounded down, of the squared distances between
\* two cells of a challenge grid
sqrt_table ==
  np_array([d2 \in 0 .. 2 * ChallengeGrid * ChallengeGrid |->
              isqrt_between(d2 * 1000000, 0, 1000 * (d2 + 1))])

\* math.sqrt(d2) in thousandths, rounded down
sqrt_milli(d2) == sqrt_table[d2]

max0(x) == IF x > 0 THEN x ELSE 0

\* the impact of simulate_disaster at cell (i, j), in thousandths
disaster_impact(N, disaster_type, severity, i, j) ==
  LET center_x == N \div 2
      center_y == N \div 2
      d2 == (i - center_x) * (i - center_x) + (j - center_y) * (j - center_y)
  IN CASE disaster_type = "earthquake" ->
            max0(1000 - sqrt_milli(d2) \div (severity * 2))
       [] disaster_type = "flood" ->
            IF i < center_x + severity /\ j < center_y + severity
               THEN 80 * severity ELSE 0
       [] OTHER ->
            IF d2 < severity * severity THEN 900 ELSE 0

\* disaster_demand = base_demand * (1 + disaster_map * severity / 5)
simulate_disaster(N, base_demand, disaster_type, severity) ==
  np_array([c \in Cells(N) |->
     (base_demand[c] *
        (1000 + (disaster_impact(N, disaster_type, severity, c[1], c[2]) * severity) \div 5))
     \div 1000])

\* -------------------------------------------- calculate_user_performance
SignificanceThreshold == 10

\* variant: the test is `demand > 2.0`
significant_above_two(demand) == demand > 2 * SignificanceThreshold

\* if demand > 1.0
significant(demand) == demand > SignificanceThreshold

\* variant: a cell is covered when no site is out of reach
covered_by_every_site(user_locations, reactor_radius, i, j, n) ==
  \A m \in n .. Len(user_locations) :
    sqrt_milli((i - user_locations[m][1]) * (i - user_locations[m][1])
               + (j - user_locations[m][2]) * (j - user_locations[m][2]))
      <= 1000 * reactor_radius

RECURSIVE covered_by(_, _, _, _, _)
\* the `for rx, ry in user_locations` loop with its break, from site n on
covered_by(user_locations, reactor_radius, i, j, n) ==
  IF n > Len(user_locations) THEN FALSE
  ELSE LET rx == user_locations[n][1]
           ry == user_locations[n][2]
           distance == sqrt_milli((i - rx) * (i - rx) + (j - ry) * (j - ry))
       IN IF distance <= 1000 * reactor_radius
             THEN TRUE
             ELSE covered_by(user_locations, reactor_radius, i, j, n + 1)

\* calculate_coverage(demand_map)
calculate_coverage(N, user_locations, reactor_radius, demand_map) ==
  LET total_demand ==
        np_sum(N, [c \in Cells(N) |-> IF significant(demand_map[c]) THEN demand_map[c] ELSE 0])
      covered_demand ==
        np_sum(N, [c \in Cells(N) |->
                     IF /\ significant(demand_map[c])
                        /\ covered_by(user_locations, reactor_radius, c[1], c[2], 1)
                        THEN demand_map[c] ELSE 0])
  IN IF total_demand > 0 THEN Frac(covered_demand * 100, total_demand) ELSE FracInt(0)

calculate_user_performance(N, user_locations, normal_demand_, disaster_demand_, reactor_radius) ==
  [normal_coverage   |-> calculate_coverage(N, user_locations, reactor_radius, normal_demand_),
   disaster_coverage |-> calculate_coverage(N, user_locations, reactor_radius, disaster_demand_)]

\* ----------------------------------------------------------- solve_challenge
\* (m['normal_coverage'] + m['disaster_coverage']) / 2
mean_coverage(m) == FracDiv(FracAdd(m.normal_coverage, m.disaster_coverage), FracInt(2))

RECURSIVE location_bonus(_, _, _)
\* the `for user_loc in user_placements` loop from site n on
location_bonus(placements, optimal_locations, n) ==
  IF n > Len(placements) THEN 0
  ELSE (IF InList(placements[n], optimal_locations) THEN 10 ELSE 0)
       + location_bonus(placements, optimal_locations, n + 1)

\* variant: the bonus is added after the last cap
final_score_uncapped(user_coverage_, optimal_coverage_, bonus) ==
  IF FracLT(FracInt(0), optimal_coverage_)
     THEN FracAdd(FracMin(FracInt(100),
                          FracScale(100, FracDiv(user_coverage_, optimal_coverage_))),
                  FracInt(bonus))
     ELSE FracInt(50)

\* variant: no score without an optimum
final_score_zero_fallback(user_coverage_, optimal_coverage_, bonus) ==
  IF FracLT(FracInt(0), optimal_coverage_)
     THEN FracMin(FracInt(100),
                  FracAdd(FracMin(FracInt(100),
                                  FracScale(100, FracDiv(user_coverage_, optimal_coverage_))),
                          FracInt(bonus)))
     ELSE FracInt(0)

\* "Calculate user optimization score": lines 1028-1039
final_score_of(user_coverage_, optimal_coverage_, bonus) ==
  IF FracLT(FracInt(0), optimal_coverage_)
     THEN LET optimization_score ==
                FracMin(FracInt(100),
                        FracScale(100, FracDiv(user_coverage_, optimal_coverage_)))
          IN FracMin(FracInt(100), FracAdd(optimization_score, FracInt(bonus)))
     ELSE FracInt(50)

\* ------------------------------------------------------------- state
VARIABLES
  grid_size,        \* self.grid_size
  normal_demand,    \* argument normal_demand (sim.base_demand in the handlers)
  disaster_demand,  \* argument disaster_demand
  num_reactors,     \* argument num_reactors
  radius,           \* argument radius
  capacity,         \* argument capacity (reactor_capacity in the handlers)
  locations,        \* local list locations (optimal_locations in solve_challenge)
  coverage_map,     \* local grid coverage_map
  best_score,       \* local best_score after the last scan
  best_pos,         \* local best_pos after the last scan
  scores,           \* local score of each candidate of the last scan
  iter,             \* passes of the greedy loop completed
  pc,               \* "loop" inside the greedy loop, "done" after return
  metrics,          \* the returned metrics record (optimal_metrics in solve_challenge)
  phase,            \* gameState.phase of the page, or the state of one API call
  scenario,         \* gameState.scenario: <<>> for null, else <<params and preview data>>
  user_placements,  \* gameState.userPlacements / the request's user_placements
  user_metrics,     \* solve_challenge: user_metrics
  user_coverage,    \* solve_challenge: user_coverage
  optimal_coverage, \* solve_challenge: optimal_coverage
  final_score,      \* solve_challenge: final_score
  total_capacity,   \* simulate: metrics['total_capacity'] of the response
  sim,              \* the attributes of the SimpleEnergySimulator object of the call
  calls             \* the frames of calls of optimize_reactors that run concurrently

inputs == <<grid_size, normal_demand, disaster_demand, num_reactors, radius, capacity>>

greedy_locals == <<coverage_map, best_score, best_pos, scores, iter, pc>>

challenge_results == <<user_metrics, user_coverage, optimal_coverage, final_score>>

challenge_vars == <<phase, scenario, user_placements, challenge_results>>

vars == <<inputs, locations, greedy_locals, metrics, challenge_vars, total_capacity, sim,
          calls>>

\* a grid that holds v0 MW everywhere except v1 MW at c1 and v2 MW at c2
Surface(N, c1, c2, v0, v1, v2) ==
  [c \in Cells(N) |-> IF c = c1 THEN 10 * v1 ELSE IF c = c2 THEN 10 * v2 ELSE 10 * v0]

\* Python's None
None == <<>>

\* SimpleEnergySimulator(grid_size) after __init__; zone_map, which only the
\* plots read, is left out
new_simulator(N) == [grid_size |-> N, base_demand |-> None]

\* the object after create_map
simulator_with_map(N, base_demand) == [grid_size |-> N, base_demand |-> base_demand]

\* variant: the placement is kept on the object
self_keeping_placement(self, locs) == self @@ [reactor_locations |-> locs]

\* self after optimize_reactors: the body reads self.grid_size and assigns to
\* no attribute
self_after_optimize(self, locs) == self

\* variant: the greedy loop marks coverage by zeroing the covered disaster
\* demand in place
surfaces_after_zeroing_covered(N, normal, disaster, reach, locs) ==
  [normal_demand   |-> normal,
   disaster_demand |->
     np_array([c \in Cells(N) |->
                 IF \E n \in 1 .. Len(locs) :
                      (c[1] - locs[n][1]) * (c[1] - locs[n][1])
                        + (c[2] - locs[n][2]) * (c[2] - locs[n][2]) <= reach * reach
                    THEN 0 ELSE disaster[c]])]

\* the two surfaces after optimize_reactors: they are indexed, summed and
\* multiplied into new arrays, never assigned to
surfaces_after_optimize(N, normal, disaster, reach, locs) ==
  [normal_demand |-> normal, disaster_demand |-> disaster]

\* variant: the site loop consumes the list, `while user_locations: pop()`
arguments_after_score_consuming_sites(user_locations, normal, disaster) ==
  [user_locations |-> <<>>, normal_demand |-> normal, disaster_demand |-> disaster]

\* the arguments after calculate_user_performance: the list is iterated, the
\* surfaces are indexed, none is assigned to
arguments_after_score(user_locations, normal, disaster) ==
  [user_locations |-> user_locations, normal_demand |-> normal, disaster_demand |-> disaster]

\* data.get('reactor_capacity', 12), and the page's reactor_capacity: 12
DefaultCapacity == 12

no_metrics == [normal_coverage |-> FracInt(0), disaster_coverage |-> FracInt(0)]

\* nothing scored yet
NoResults ==
  /\ user_metrics = no_metrics
  /\ user_coverage = FracInt(0)
  /\ optimal_coverage = FracInt(0)
  /\ final_score = FracInt(0)

\* no greedy loop has been entered
NoGreedyCall ==
  /\ locations = <<>>
  /\ best_score = 0
  /\ best_pos = <<0, 0>>
  /\ scores = <<>>
  /\ iter = 0
  /\ pc = "loop"
  /\ metrics = no_metrics

\* ---------------------------------- optimize_reactors called on its own
Init ==
  /\ grid_size \in 1 .. MaxGrid
  /\ \E c1 \in Cells(grid_size), c2 \in Cells(grid_size) :
       \E v0 \in {0, 1}, v1 \in {0, 1}, v2 \in {0, 2} :
         /\ disaster_demand = Surface(grid_size, c1, c2, v0, v1, v2)
         /\ normal_demand = Surface(grid_size, c2, c2, 1 - v0, v2, v2)
  /\ num_reactors \in 0 .. MaxK
  /\ radius \in 0 .. MaxRadius
  /\ capacity = DefaultCapacity
  /\ coverage_map = zeros(grid_size)
  /\ NoGreedyCall
  /\ phase = "call"
  /\ scenario = <<>>
  /\ user_placements = <<>>
  /\ NoResults
  /\ total_capacity = 0
  /\ calls = <<>>
  /\ sim = new_simulator(grid_size)

\* one pass of the greedy loop
GreedyIteration ==
  /\ pc = "loop"
  /\ phase = "call"
  /\ loop_continues(iter, num_reactors)
  /\ \E st \in {greedy_iteration(grid_size, disaster_demand, radius,
                                 [locations |-> locations, coverage_map |-> coverage_map,
                                  best_score |-> best_score, best_pos |-> best_pos,
                                  scores |-> scores])} :
        /\ locations' = st.locations
        /\ coverage_map' = st.coverage_map
        /\ best_score' = st.best_score
        /\ best_pos' = st.best_pos
        /\ scores' = st.scores
  /\ iter' = iter + 1
  /\ UNCHANGED <<inputs, pc, metrics, challenge_vars, total_capacity, sim, calls>>

\* loop exit: compute the metrics and return
Return ==
  /\ pc = "loop"
  /\ phase = "call"
  /\ ~loop_continues(iter, num_reactors)
  /\ metrics' = calc_metrics(grid_size, normal_demand, disaster_demand, coverage_map)
  /\ pc' = "done"
  /\ UNCHANGED <<inputs, locations, coverage_map, best_score, best_pos, scores, iter,
                 challenge_vars, total_capacity, sim, calls>>

Next == GreedyIteration \/ Return

Spec == Init /\ [][Next]_vars

\* ------------------------------------- the challenge: page and two endpoints
\* disaster_type and severity = int(data.get('severity', 5)) of a request:
\* any integer the request carries, the page's number field does not enforce
\* its range on typed values
DisasterScenarios ==
  {<<"earthquake", 1>>, <<"earthquake", -3>>, <<"flood", 2>>, <<"power_outage", 1>>}

\* a comes no later than b in row-major scan order
RowMajorLE(a, b) == a[1] < b[1] \/ (a[1] = b[1] /\ a[2] <= b[2])

\* lists of at most n cells of the grid, repeats included; the order of the
\* sites enters neither the coverage nor the bonus, so each list is taken
\* in row-major order
RECURSIVE SiteLists(_, _)
SiteLists(N, n) ==
  IF n = 0 THEN {<<>>}
  ELSE SiteLists(N, n - 1) \cup
       {Append(l, c) : <<l, c>> \in
          {<<m, d>> \in SiteLists(N, n - 1) \X Cells(N) :
             Len(m) = n - 1 /\ (m = <<>> \/ RowMajorLE(m[Len(m)], d))}}

\* no handler has run yet
NoServerCall ==
  /\ grid_size = 0
  /\ num_reactors = 0
  /\ radius = 0
  /\ capacity = 0
  /\ total_capacity = 0
  /\ calls = <<>>
  /\ sim = None
  /\ normal_demand = zeros(0)
  /\ disaster_demand = zeros(0)
  /\ coverage_map = zeros(0)
  /\ NoGreedyCall
  /\ NoResults

\* what /api/solve_challenge computes and returns, for the request held in
\* scenario and user_placements; create_map draws a fresh map
ServeSolveChallenge ==
  LET sc == scenario[1]
  IN \E base_demand \in create_map(sc.grid_size) :
     \E disaster \in {simulate_disaster(sc.grid_size, base_demand,
                                         sc.disaster_type, sc.severity)} :
     \E um \in {calculate_user_performance(sc.grid_size, user_placements, base_demand,
                                            disaster, sc.reactor_radius)} :
     \E opt \in {optimize_reactors(sc.grid_size, base_demand, disaster,
                                    sc.num_reactors, sc.reactor_radius,
                                    sc.reactor_capacity)} :
     \E uc \in {mean_coverage(um)}, oc \in {mean_coverage(opt.metrics)} :
       /\ grid_size' = sc.grid_size
       /\ num_reactors' = sc.num_reactors
       /\ radius' = sc.reactor_radius
       /\ capacity' = sc.reactor_capacity
       /\ normal_demand' = base_demand
       /\ disaster_demand' = disaster
       /\ locations' = opt.locations
       /\ metrics' = opt.metrics
       /\ user_metrics' = um
       /\ user_coverage' = uc
       /\ optimal_coverage' = oc
       /\ final_score' =
            final_score_of(uc, oc, location_bonus(user_placements, opt.locations, 1))
       /\ sim' = simulator_with_map(sc.grid_size, base_demand)
       /\ UNCHANGED <<greedy_locals, scenario, user_placements, total_capacity, calls>>

\* previewChallenge() and /api/preview_challenge
PreviewChallenge ==
  /\ phase = "setup"
  /\ \E k \in 1 .. MaxSites, <<t, s>> \in DisasterScenarios :
       \E base_demand \in create_map(ChallengeGrid) :
         scenario' = << [grid_size       |-> ChallengeGrid,
                         num_reactors    |-> k,
                         reactor_radius  |-> 1,
                         reactor_capacity |-> DefaultCapacity,
                         disaster_type   |-> t,
                         severity        |-> s,
                         base_demand     |-> base_demand,
                         disaster_demand |-> simulate_disaster(ChallengeGrid, base_demand, t, s)] >>
  /\ UNCHANGED <<inputs, locations, greedy_locals, metrics, phase, user_placements,
                 challenge_results, total_capacity, sim, calls>>

\* startChallenge(), offered once a preview is shown
StartChallenge ==
  /\ phase = "setup"
  /\ scenario # <<>>
  /\ phase' = "playing"
  /\ user_placements' = <<>>
  /\ UNCHANGED <<inputs, locations, greedy_locals, metrics, scenario, challenge_results,
                 total_capacity, sim, calls>>

\* JavaScript's NaN, the value of parseInt on an empty number field; held as
\* an integer no grid index takes
NaN == -1

\* a === b on numbers: NaN equals nothing, itself included
js_strict_equal(a, b) == a # NaN /\ b # NaN /\ a = b

\* userPlacements.some(placement => placement[0] === x && placement[1] === y)
placed_at(placements, x, y) ==
  \E n \in 1 .. Len(placements) :
    js_strict_equal(placements[n][1], x) /\ js_strict_equal(placements[n][2], y)

\* parseInt(document.getElementById('reactor_x').value): a grid index, or NaN
\* for an empty field
FieldValues(N) == range(0, N) \cup {NaN}

\* userPlacements.splice(index, 1), index counted from 1
splice_one(placements, index) ==
  SubSeq(placements, 1, index - 1) \o SubSeq(placements, index + 1, Len(placements))

RECURSIVE auto_place_scan(_, _, _, _, _)
\* the i/j loops of autoPlaceReactor from step idx on; best_location is <<>>
\* for null
auto_place_scan(N, disasterDemand, placements, idx, acc) ==
  IF idx >= N * N THEN acc
  ELSE LET c == cell_at(N, idx)
           demand == disasterDemand[c]
           occupied == placed_at(placements, c[1], c[2])
       IN auto_place_scan(N, disasterDemand, placements, idx + 1,
                          IF ~occupied /\ demand > acc.maxDemand
                             THEN [bestLocation |-> <<c>>, maxDemand |-> demand]
                             ELSE acc)

\* a placement holds a NaN, which JSON.stringify sends as null
HasNaN(placements) ==
  \E n \in 1 .. Len(placements) : placements[n][1] = NaN \/ placements[n][2] = NaN

\* addReactor()
AddReactor ==
  /\ phase = "playing"
  /\ \E x \in FieldValues(scenario[1].grid_size), y \in FieldValues(scenario[1].grid_size) :
       /\ ~placed_at(user_placements, x, y)
       /\ Len(user_placements) < scenario[1].num_reactors
       /\ user_placements' = Append(user_placements, <<x, y>>)
  /\ UNCHANGED <<inputs, locations, greedy_locals, metrics, phase, scenario, challenge_results,
                 total_capacity, sim, calls>>

\* the canvas click listener; a click on the far edge gives the index N
CanvasClick ==
  /\ phase = "playing"
  /\ Len(user_placements) < scenario[1].num_reactors
  /\ \E gridX \in 0 .. scenario[1].grid_size, gridY \in 0 .. scenario[1].grid_size :
       /\ gridX >= 0 /\ gridX < scenario[1].grid_size
       /\ gridY >= 0 /\ gridY < scenario[1].grid_size
       /\ ~placed_at(user_placements, gridY, gridX)
       /\ user_placements' = Append(user_placements, <<gridY, gridX>>)
  /\ UNCHANGED <<inputs, locations, greedy_locals, metrics, phase, scenario, challenge_results,
                 total_capacity, sim, calls>>

\* autoPlaceReactor()
AutoPlaceReactor ==
  /\ phase = "playing"
  /\ Len(user_placements) < scenario[1].num_reactors
  /\ \E found \in {auto_place_scan(scenario[1].grid_size, scenario[1].disaster_demand,
                                    user_placements, 0,
                                    [bestLocation |-> <<>>, maxDemand |-> 0])} :
       /\ found.bestLocation # <<>>
       /\ user_placements' = Append(user_placements, found.bestLocation[1])
  /\ UNCHANGED <<inputs, locations, greedy_locals, metrics, phase, scenario, challenge_results,
                 total_capacity, sim, calls>>

\* removeReactor(index), one button per placement
RemoveReactor ==
  /\ phase = "playing"
  /\ \E index \in 1 .. Len(user_placements) :
       user_placements' = splice_one(user_placements, index)
  /\ UNCHANGED <<inputs, locations, greedy_locals, metrics, phase, scenario, challenge_results,
                 total_capacity, sim, calls>>

\* clearLastReactor()
ClearLastReactor ==
  /\ phase = "playing"
  /\ Len(user_placements) > 0
  /\ user_placements' = SubSeq(user_placements, 1, Len(user_placements) - 1)
  /\ UNCHANGED <<inputs, locations, greedy_locals, metrics, phase, scenario, challenge_results,
                 total_capacity, sim, calls>>

\* solveChallenge() and showChallengeResults(), offered once all reactors are
\* placed.  A null coordinate makes calculate_user_performance raise a
\* TypeError at the first cell above the threshold, the answer is
\* success = False and the page stays as it is; on a map without such a cell
\* the coordinate is never read by the scoring.
SolveChallenge ==
  /\ phase = "playing"
  /\ Len(user_placements) = scenario[1].num_reactors
  /\ ServeSolveChallenge
  /\ HasNaN(user_placements) =>
       \A c \in Cells(grid_size') :
         ~significant(normal_demand'[c]) /\ ~significant(disaster_demand'[c])
  /\ phase' = "completed"

\* newChallenge(): resetGame(); the response of the last call, which only
\* showChallengeResults held, is dropped with the results panel
NewChallenge ==
  /\ phase = "completed"
  /\ phase' = "setup"
  /\ scenario' = <<>>
  /\ user_placements' = <<>>
  /\ grid_size' = 0
  /\ num_reactors' = 0
  /\ radius' = 0
  /\ capacity' = 0
  /\ sim' = None
  /\ normal_demand' = zeros(0)
  /\ disaster_demand' = zeros(0)
  /\ locations' = <<>>
  /\ metrics' = no_metrics
  /\ user_metrics' = no_metrics
  /\ user_coverage' = FracInt(0)
  /\ optimal_coverage' = FracInt(0)
  /\ final_score' = FracInt(0)
  /\ UNCHANGED <<greedy_locals, total_capacity, calls>>

InitChallenge ==
  /\ phase = "setup"
  /\ scenario = <<>>
  /\ user_placements = <<>>
  /\ NoServerCall

NextChallenge ==
  \/ PreviewChallenge
  \/ StartChallenge
  \/ AddReactor
  \/ CanvasClick
  \/ AutoPlaceReactor
  \/ RemoveReactor
  \/ ClearLastReactor
  \/ SolveChallenge
  \/ NewChallenge

SpecChallenge == InitChallenge /\ [][NextChallenge]_vars

\* ------------------------------- /api/solve_challenge called with any request
InitSolve ==
  /\ phase = "request"
  /\ \E N \in 1 .. ChallengeGrid, k \in 0 .. MaxSites, r \in {0, 1},
        <<t, s>> \in DisasterScenarios :
       /\ scenario = << [grid_size       |-> N,
                         num_reactors    |-> k,
                         reactor_radius  |-> r,
                         reactor_capacity |-> DefaultCapacity,
                         disaster_type   |-> t,
                         severity        |-> s,
                         base_demand     |-> zeros(N),
                         disaster_demand |-> zeros(N)] >>
       /\ user_placements \in SiteLists(N, MaxSites)
  /\ NoServerCall

HandleSolveChallenge ==
  /\ phase = "request"
  /\ ServeSolveChallenge
  /\ phase' = "responded"

NextSolve == HandleSolveChallenge

SpecSolve == InitSolve /\ [][NextSolve]_vars

\* ------------------------------------ /api/simulate called with any request
\* the requests drawn for /api/simulate: the scenarios above and a severity
\* far below the page's range
SimulateScenarios == DisasterScenarios \cup {<<"earthquake", -6>>}

InitSimulate ==
  /\ phase = "request"
  /\ \E N \in 1 .. ChallengeGrid, k \in -1 .. MaxSites, r \in {-1, 0, 1},
        cap \in {5, DefaultCapacity}, <<t, s>> \in SimulateScenarios :
       scenario = << [grid_size       |-> N,
                      num_reactors    |-> k,
                      reactor_radius  |-> r,
                      reactor_capacity |-> cap,
                      disaster_type   |-> t,
                      severity        |-> s,
                      base_demand     |-> zeros(N),
                      disaster_demand |-> zeros(N)] >>
  /\ user_placements = <<>>
  /\ NoServerCall

\* simulate(): create_map, simulate_disaster, optimize_reactors, then the
\* summary, whose impact_percent divides by the float total_normal: a map
\* without demand raises ZeroDivisionError and the except branch answers
\* success = False
HandleSimulate ==
  /\ phase = "request"
  /\ LET sc == scenario[1]
     IN \E base_demand \in create_map(sc.grid_size) :
        \E disaster \in {simulate_disaster(sc.grid_size, base_demand,
                                            sc.disaster_type, sc.severity)} :
        \E opt \in {optimize_reactors(sc.grid_size, base_demand, disaster,
                                       sc.num_reactors, sc.reactor_radius,
                                       sc.reactor_capacity)} :
          /\ grid_size' = sc.grid_size
          /\ num_reactors' = sc.num_reactors
          /\ radius' = sc.reactor_radius
          /\ capacity' = sc.reactor_capacity
          /\ sim' = simulator_with_map(sc.grid_size, base_demand)
          /\ normal_demand' = base_demand
          /\ disaster_demand' = disaster
          /\ IF np_sum(sc.grid_size, base_demand) = 0
                THEN /\ phase' = "failed"
                     /\ UNCHANGED <<locations, metrics, total_capacity>>
                ELSE /\ phase' = "responded"
                     /\ locations' = opt.locations
                     /\ metrics' = opt.metrics
                     /\ total_capacity' = Len(opt.locations) * sc.reactor_capacity
  /\ UNCHANGED <<greedy_locals, scenario, user_placements, challenge_results, calls>>

NextSimulate == HandleSimulate

SpecSimulate == InitSimulate /\ [][NextSimulate]_vars

\* --------------------- optimize_reactors called on a single-peak surface
\* a disaster surface that is zero except for 10 MW at one cell
PeakSurface(N, peak) == [c \in Cells(N) |-> IF c = peak THEN 100 ELSE 0]

InitPeak ==
  /\ grid_size \in 1 .. PeakGrid
  /\ \E peak \in Cells(grid_size) :
       /\ disaster_demand = PeakSurface(grid_size, peak)
       /\ normal_demand = PeakSurface(grid_size, peak)
  /\ num_reactors \in 1 .. 2
  /\ radius \in 0 .. MaxRadius
  /\ capacity = DefaultCapacity
  /\ coverage_map = zeros(grid_size)
  /\ NoGreedyCall
  /\ phase = "call"
  /\ scenario = <<>>
  /\ user_placements = <<>>
  /\ NoResults
  /\ total_capacity = 0
  /\ calls = <<>>
  /\ sim = new_simulator(grid_size)

SpecPeak == InitPeak /\ [][Next]_vars

\* ------------------- optimize_reactors called twice with the same arguments
\* variant: the coverage map outlives the call
call_entry_keeping_coverage(N, cov) == [initial_state(N) EXCEPT !.coverage_map = cov]

\* the locals at the entry of a call: locations and coverage_map are created
\* anew, whatever an earlier call left
call_entry(N, cov) == initial_state(N)

InitTwoCalls == Init /\ radius \in {0, 1}

\* the first call has returned; its result is kept in scenario and the same
\* arguments are passed to a second call
CallAgain ==
  /\ pc = "done"
  /\ phase = "call"
  /\ scenario = <<>>
  /\ scenario' = << [locations |-> locations, metrics |-> metrics] >>
  /\ \E st \in {call_entry(grid_size, coverage_map)} :
       /\ locations' = st.locations
       /\ coverage_map' = st.coverage_map
       /\ best_score' = st.best_score
       /\ best_pos' = st.best_pos
       /\ scores' = st.scores
  /\ iter' = 0
  /\ pc' = "loop"
  /\ metrics' = no_metrics
  /\ UNCHANGED <<inputs, phase, user_placements, challenge_results, total_capacity, sim, calls>>

NextTwoCalls == GreedyIteration \/ Return \/ CallAgain

SpecTwoCalls == InitTwoCalls /\ [][NextTwoCalls]_vars

\* ------------- optimize_reactors called twice, the capacity alone changed
\* values of int(data.get('reactor_capacity', 12)): one below the page's
\* range, the page's minimum and its default
Capacities == {1, 5, DefaultCapacity}

InitCapacity ==
  /\ grid_size \in 1 .. MaxGrid
  /\ \E c1 \in Cells(grid_size), c2 \in Cells(grid_size) :
       \E v0 \in {0, 1}, v1 \in {0, 1}, v2 \in {0, 2} :
         /\ disaster_demand = Surface(grid_size, c1, c2, v0, v1, v2)
         /\ normal_demand = Surface(grid_size, c2, c2, 1 - v0, v2, v2)
  /\ num_reactors \in 0 .. MaxK
  /\ radius \in {0, 1}
  /\ capacity \in Capacities
  /\ coverage_map = zeros(grid_size)
  /\ NoGreedyCall
  /\ phase = "call"
  /\ scenario = <<>>
  /\ user_placements = <<>>
  /\ NoResults
  /\ total_capacity = 0
  /\ calls = <<>>
  /\ sim = new_simulator(grid_size)

\* a caller's `sim.optimize_reactors(..., reactor_capacity)` and the
\* total_capacity it reports from the returned sites
OptimizeCall ==
  /\ pc = "loop"
  /\ phase = "call"
  /\ \E opt \in {optimize_reactors(grid_size, normal_demand, disaster_demand,
                                    num_reactors, radius, capacity)} :
       /\ locations' = opt.locations
       /\ metrics' = opt.metrics
       /\ total_capacity' = Len(opt.locations) * capacity
       /\ sim' = self_after_optimize(sim, opt.locations)
       /\ \E after \in {surfaces_after_optimize(grid_size, normal_demand, disaster_demand,
                                                radius, opt.locations)} :
            /\ normal_demand' = after.normal_demand
            /\ disaster_demand' = after.disaster_demand
  /\ pc' = "done"
  /\ UNCHANGED <<grid_size, num_reactors, radius, capacity, coverage_map, best_score,
                 best_pos, scores, iter, challenge_vars, calls>>

\* the first call has returned; its result is kept in scenario and the next
\* call gets the same arguments but for another capacity
ChangeCapacity ==
  /\ pc = "done"
  /\ phase = "call"
  /\ scenario = <<>>
  /\ scenario' = << [locations |-> locations, metrics |-> metrics, capacity |-> capacity,
                     total_capacity |-> total_capacity] >>
  /\ capacity' \in Capacities \ {capacity}
  /\ locations' = <<>>
  /\ metrics' = no_metrics
  /\ total_capacity' = 0
  /\ pc' = "loop"
  /\ UNCHANGED <<grid_size, normal_demand, disaster_demand, num_reactors, radius,
                 coverage_map, best_score, best_pos, scores, iter, phase, user_placements,
                 challenge_results, sim, calls>>

\* ------- calculate_user_performance and optimize_reactors on shared arguments
\* solve_challenge after create_map and simulate_disaster: the object holds
\* base_demand, which both calls receive along with disaster_demand
InitFrame ==
  /\ grid_size \in 1 .. ChallengeGrid
  /\ \E base_demand \in create_map(grid_size), <<t, s>> \in DisasterScenarios :
       /\ normal_demand = base_demand
       /\ disaster_demand = simulate_disaster(grid_size, base_demand, t, s)
       /\ sim = simulator_with_map(grid_size, base_demand)
  /\ num_reactors \in 0 .. MaxSites
  /\ radius \in {0, 1}
  /\ capacity = DefaultCapacity
  /\ user_placements \in SiteLists(grid_size, MaxSites)
  /\ coverage_map = zeros(grid_size)
  /\ locations = <<>>
  /\ best_score = 0
  /\ best_pos = <<0, 0>>
  /\ scores = <<>>
  /\ iter = 0
  /\ pc = "score"
  /\ metrics = no_metrics
  /\ phase = "call"
  /\ scenario = <<>>
  /\ NoResults
  /\ total_capacity = 0
  /\ calls = <<>>

\* user_metrics = calculate_user_performance(user_placements, sim.base_demand,
\* disaster_demand, reactor_radius)
ScoreCall ==
  /\ pc = "score"
  /\ phase = "call"
  /\ user_metrics' = calculate_user_performance(grid_size, user_placements, normal_demand,
                                                disaster_demand, radius)
  /\ \E after \in {arguments_after_score(user_placements, normal_demand, disaster_demand)} :
       /\ user_placements' = after.user_locations
       /\ normal_demand' = after.normal_demand
       /\ disaster_demand' = after.disaster_demand
  /\ pc' = "loop"
  /\ UNCHANGED <<grid_size, num_reactors, radius, capacity, locations, coverage_map,
                 best_score, best_pos, scores, iter, metrics, phase, scenario,
                 user_coverage, optimal_coverage, final_score, total_capacity, sim, calls>>

NextFrame == ScoreCall \/ OptimizeCall

SpecFrame == InitFrame /\ [][NextFrame]_vars

NextCapacity == OptimizeCall \/ ChangeCapacity

SpecCapacity == InitCapacity /\ [][NextCapacity]_vars

\* -------------------- two calls of optimize_reactors that run concurrently
\* the frame of a call at its entry: the arguments (self.grid_size among
\* them) and the locals as lines 72-73 create them
call_frame(N, normal, disaster, k, r) ==
  [grid_size |-> N, normal_demand |-> normal, disaster_demand |-> disaster,
   num_reactors |-> k, radius |-> r,
   locations |-> initial_state(N).locations,
   coverage_map |-> initial_state(N).coverage_map,
   best_score |-> 0, best_pos |-> <<0, 0>>, scores |-> <<>>,
   iter |-> 0, pc |-> "loop", metrics |-> no_metrics]

\* variant: one coverage map, shared by the calls in flight
coverage_map_shared(frames, p) ==
  np_array([c \in DOMAIN frames[p].coverage_map |->
              IF \E q \in DOMAIN frames :
                   c \in DOMAIN frames[q].coverage_map /\ frames[q].coverage_map[c] = 1
                 THEN 1 ELSE 0])

\* the coverage map call p reads and writes: the local of its own frame
coverage_map_of_call(frames, p) == frames[p].coverage_map

\* the surfaces the concurrent calls are given: v0 MW everywhere but v1 MW at
\* one cell
ConcurrentSurfaces(N) ==
  {Surface(N, c1, c1, v0, v1, v1) : <<c1, v0, v1>> \in Cells(N) \X {0, 1} \X {0, 2}}

InitConcurrent ==
  /\ \E r \in {0, 1} :
     \E N1 \in 1 .. ConcurrentGrid, N2 \in 1 .. ConcurrentGrid, k1 \in {1, 2}, k2 \in {1, 2} :
     \E d1 \in ConcurrentSurfaces(N1), d2 \in ConcurrentSurfaces(N2) :
       calls = << call_frame(N1, d1, d1, k1, r), call_frame(N2, d2, d2, k2, r) >>
  /\ grid_size = 0
  /\ num_reactors = 0
  /\ radius = 0
  /\ capacity = 0
  /\ normal_demand = zeros(0)
  /\ disaster_demand = zeros(0)
  /\ coverage_map = zeros(0)
  /\ NoGreedyCall
  /\ NoResults
  /\ phase = "call"
  /\ scenario = <<>>
  /\ user_placements = <<>>
  /\ total_capacity = 0
  /\ sim = None

\* one pass of the greedy loop of call p
ConcurrentIteration(p) ==
  /\ calls[p].pc = "loop"
  /\ loop_continues(calls[p].iter, calls[p].num_reactors)
  /\ \E st \in {greedy_iteration(calls[p].grid_size, calls[p].disaster_demand,
                                 calls[p].radius,
                                 [locations |-> calls[p].locations,
                                  coverage_map |-> coverage_map_of_call(calls, p),
                                  best_score |-> calls[p].best_score,
                                  best_pos |-> calls[p].best_pos,
                                  scores |-> calls[p].scores])} :
       calls' = [calls EXCEPT ![p] =
                   [@ EXCEPT !.locations = st.locations,
                             !.coverage_map = st.coverage_map,
                             !.best_score = st.best_score,
                             !.best_pos = st.best_pos,
                             !.scores = st.scores,
                             !.iter = @ + 1]]
  /\ UNCHANGED <<inputs, locations, greedy_locals, metrics, challenge_vars, total_capacity,
                 sim>>

\* loop exit of call p: compute the metrics and return
ConcurrentReturn(p) ==
  /\ calls[p].pc = "loop"
  /\ ~loop_continues(calls[p].iter, calls[p].num_reactors)
  /\ calls' = [calls EXCEPT ![p] =
                 [@ EXCEPT !.metrics = calc_metrics(calls[p].grid_size,
                                                    calls[p].normal_demand,
                                                    calls[p].disaster_demand,
                                                    coverage_map_of_call(calls, p)),
                           !.pc = "done"]]
  /\ UNCHANGED <<inputs, locations, greedy_locals, metrics, challenge_vars, total_capacity,
                 sim>>

NextConcurrent == \E p \in DOMAIN calls : ConcurrentIteration(p) \/ ConcurrentReturn(p)

SpecConcurrent == InitConcurrent /\ [][NextConcurrent]_vars

\* ------------------------------ the challenge game of the Streamlit app
\* zone_types[z]['demand'] * random.uniform(0.8, 1.2), one draw per zone, in
\* tenths of a MW
game_zone_demand(z) ==
  CASE z = 0 -> 5
    [] z = 1 -> 30
    [] z = 2 -> 60
    [] z = 3 -> 100

\* the maps create_map of simple_energy_reactor_optimization can produce, cut
\* down to those where every cell has the zone z0 in {empty, residential}
\* except the middle cell, which is industrial
game_create_map(N) ==
  { np_array([c \in Cells(N) |->
                game_zone_demand(IF c = <<N \div 2, N \div 2>> THEN 3 ELSE z0)]) :
      z0 \in {0, 1} }

\* the values of the severity slider that are drawn
GameSeverities == {3}

\* the random draws of simulate_disaster: the epicentre of an earthquake (cut
\* down to the diagonal), the row of a horizontal flood, the corner of the
\* sector of a power outage; random.randint raises ValueError on an empty
\* range, so a grid smaller than the sector has no draw
disaster_draws(N, disaster_type, severity) ==
  CASE disaster_type = "earthquake" ->
         {<<e, e>> : e \in (N \div 4) .. ((3 * N) \div 4)}
    [] disaster_type = "flood" ->
         {<<flood_row, 0>> : flood_row \in 0 .. (N - 1)}
    [] OTHER ->
         {<<start_x, start_y>> : <<start_x, start_y>> \in
            (0 .. (N - 2 * severity)) \X (0 .. (N - 2 * severity))}

\* disaster_map[i, j] in thousandths for one draw
game_disaster_map(N, disaster_type, severity, draw, i, j) ==
  CASE disaster_type = "earthquake" ->
         LET distance == sqrt_milli((i - draw[1]) * (i - draw[1])
                                    + (j - draw[2]) * (j - draw[2]))
             max_radius == 1500 * severity
         IN IF distance <= max_radius
               THEN 200 + (600 * distance) \div max_radius
               ELSE 1000
    [] disaster_type = "flood" ->
         LET flood_width == severity
             start_row == max0(draw[1] - flood_width \div 2)
             end_row == IF draw[1] + flood_width \div 2 < N
                           THEN draw[1] + flood_width \div 2 ELSE N
         IN IF start_row <= i /\ i < end_row THEN 300 ELSE 1000
    [] OTHER ->
         LET sector_size == severity * 2
         IN IF /\ draw[1] <= i /\ i < draw[1] + sector_size
               /\ draw[2] <= j /\ j < draw[2] + sector_size
               THEN 100 ELSE 1000

\* affected_demand = self.base_demand * disaster_map
game_simulate_disaster(N, base_demand, disaster_type, severity, draw) ==
  np_array([c \in Cells(N) |->
     (base_demand[c] * game_disaster_map(N, disaster_type, severity, draw, c[1], c[2]))
       \div 1000])

\* SimpleEnergySimulator.calculate_metrics: the same loops as
\* calculate_placement_performance of app.py
calculate_metrics(N, reactor_locations, normal, disaster, reactor_radius) ==
  calculate_user_performance(N, reactor_locations, normal, disaster, reactor_radius)

\* the objective of the placement model for the reactor cells S, with every
\* coverage variable at its best value: a cell with a coverage constraint
\* counts as uncovered when no reactor of S reaches it
placement_objective(N, normal, disaster, reactor_radius, S) ==
  LET reached == {c \in Cells(N) :
                    \E s \in S : sqrt_milli((c[1] - s[1]) * (c[1] - s[1])
                                            + (c[2] - s[2]) * (c[2] - s[2]))
                                   <= 1000 * reactor_radius}
      uncovered_normal ==
        np_sum(N, [c \in Cells(N) |->
                     IF significant(normal[c]) /\ c \notin reached THEN normal[c] ELSE 0])
      uncovered_disaster ==
        np_sum(N, [c \in Cells(N) |->
                     IF significant(disaster[c]) /\ significant(normal[c]) /\ c \notin reached
                        THEN disaster[c] ELSE 0])
  IN uncovered_normal + 2 * uncovered_disaster

RECURSIVE extract_locations(_, _, _)
\* the loop `if reactor[i, j].X > 0.5: reactor_locations.append((i, j))`
\* from step idx on
extract_locations(N, S, idx) ==
  IF idx >= N * N THEN <<>>
  ELSE (IF cell_at(N, idx) \in S THEN <<cell_at(N, idx)>> ELSE <<>>)
       \o extract_locations(N, S, idx + 1)

\* the least value of the function f
least_value(f) == CHOOSE v \in {f[x] : x \in DOMAIN f} : \A x \in DOMAIN f : v <= f[x]

\* optimize_reactors of simple_energy_reactor_optimization when the solver
\* reports GRB.OPTIMAL: an optimal reactor set and its metrics.  Which of the
\* optimal sets the solver returns is its choice; the sets drawn are cut down
\* to the optimal ones with the fewest reactors.
optimize_reactors_exactly(N, normal, disaster, k, reactor_radius, reactor_capacity) ==
  LET choices == {S \in SUBSET Cells(N) : Cardinality(S) <= k}
      objective == np_array([S \in choices |->
                      placement_objective(N, normal, disaster, reactor_radius, S)])
      best == least_value(objective)
      optimal == {S \in choices : objective[S] = best}
      fewest == least_value(np_array([S \in optimal |-> Cardinality(S)]))
  IN { [locations |-> extract_locations(N, S, 0),
        metrics   |-> calculate_metrics(N, extract_locations(N, S, 0), normal, disaster,
                                        reactor_radius)] :
       S \in {T \in optimal : Cardinality(T) = fewest} }

\* variant: the start button is shown from the first render on
lock_offered_at_once(challenge_scenario) == TRUE

\* if st.session_state.game_state.get('challenge_scenario')
lock_offered(challenge_scenario) == challenge_scenario # None

\* variant: the solve button is shown as soon as one reactor is placed
solve_offered_with_any_site(placements, challenge_scenario) == Len(placements) >= 1

\* if len(user_placements) == scenario['num_reactors']
solve_offered(placements, challenge_scenario) ==
  Len(placements) = challenge_scenario.num_reactors

\* variant: the new game keeps the placements of the last one
placements_of_new_game_kept(placements) == placements

\* 'user_placements': [] of the dict the New Challenge button stores
placements_of_new_game(placements) == <<>>

\* user_placements.pop(i), i counted from 1
list_pop(placements, i) ==
  SubSeq(placements, 1, i - 1) \o SubSeq(placements, i + 1, Len(placements))

\* the 'Preview Challenge' button of setup_challenge_game
GamePreview ==
  /\ phase = "setup"
  /\ \E k \in 1 .. MaxSites, t \in {"earthquake", "flood", "power_outage"},
        s \in GameSeverities :
       \E base_demand \in game_create_map(ChallengeGrid),
          draw \in disaster_draws(ChallengeGrid, t, s) :
         scenario' = << [simulator         |-> simulator_with_map(ChallengeGrid, base_demand),
                         grid_size         |-> ChallengeGrid,
                         num_reactors      |-> k,
                         reactor_radius    |-> 1,
                         reactor_capacity  |-> DefaultCapacity,
                         disaster_type     |-> t,
                         disaster_severity |-> s,
                         disaster_demand   |->
                           game_simulate_disaster(ChallengeGrid, base_demand, t, s, draw)] >>
  /\ UNCHANGED <<inputs, locations, greedy_locals, metrics, phase, user_placements,
                 challenge_results, total_capacity, sim, calls>>

\* the 'Lock Parameters & Start Challenge' button
GameLock ==
  /\ phase = "setup"
  /\ lock_offered(scenario)
  /\ phase' = "playing"
  /\ UNCHANGED <<inputs, locations, greedy_locals, metrics, scenario, user_placements,
                 challenge_results, total_capacity, sim, calls>>

\* a 'Remove' button of play_challenge_game
GameRemoveReactor ==
  /\ phase = "playing"
  /\ \E i \in 1 .. Len(user_placements) :
       user_placements' = list_pop(user_placements, i)
  /\ UNCHANGED <<inputs, locations, greedy_locals, metrics, phase, scenario, challenge_results,
                 total_capacity, sim, calls>>

\* the 'Add Reactor' button, with the two number inputs
GameAddReactor ==
  /\ phase = "playing"
  /\ Len(user_placements) < scenario[1].num_reactors
  /\ \E new_x \in range(0, scenario[1].grid_size), new_y \in range(0, scenario[1].grid_size) :
       /\ ~InList(<<new_x, new_y>>, user_placements)
       /\ user_placements' = Append(user_placements, <<new_x, new_y>>)
  /\ UNCHANGED <<inputs, locations, greedy_locals, metrics, phase, scenario, challenge_results,
                 total_capacity, sim, calls>>

\* the 'Challenge the Optimizer!' button and solve_challenge.  When the solver
\* does not report an optimum, optimize_reactors returns ([], {}), the read of
\* optimal_metrics['normal_coverage'] raises KeyError before anything is
\* stored and the game state stays as it is.
GameSolve ==
  /\ phase = "playing"
  /\ solve_offered(user_placements, scenario[1])
  /\ LET sc == scenario[1]
         base_demand == sc.simulator.base_demand
     IN \E um \in {calculate_user_performance(sc.grid_size, user_placements, base_demand,
                                              sc.disaster_demand, sc.reactor_radius)} :
        \E opt \in optimize_reactors_exactly(sc.grid_size, base_demand, sc.disaster_demand,
                                             sc.num_reactors, sc.reactor_radius,
                                             sc.reactor_capacity) :
        \E uc \in {mean_coverage(um)}, oc \in {mean_coverage(opt.metrics)} :
          /\ grid_size' = sc.grid_size
          /\ num_reactors' = sc.num_reactors
          /\ radius' = sc.reactor_radius
          /\ capacity' = sc.reactor_capacity
          /\ normal_demand' = base_demand
          /\ disaster_demand' = sc.disaster_demand
          /\ locations' = opt.locations
          /\ metrics' = opt.metrics
          /\ user_metrics' = um
          /\ user_coverage' = uc
          /\ optimal_coverage' = oc
          /\ final_score' =
               final_score_of(uc, oc, location_bonus(user_placements, opt.locations, 1))
          /\ sim' = sc.simulator
  /\ phase' = "completed"
  /\ UNCHANGED <<greedy_locals, scenario, user_placements, total_capacity, calls>>

\* the 'New Challenge' button of show_challenge_results
GameNewChallenge ==
  /\ phase = "completed"
  /\ phase' = "setup"
  /\ user_placements' = placements_of_new_game(user_placements)
  /\ scenario' = None
  /\ locations' = <<>>
  /\ metrics' = no_metrics
  /\ final_score' = FracInt(0)
  /\ user_metrics' = no_metrics
  /\ user_coverage' = FracInt(0)
  /\ optimal_coverage' = FracInt(0)
  /\ grid_size' = 0
  /\ num_reactors' = 0
  /\ radius' = 0
  /\ capacity' = 0
  /\ sim' = None
  /\ normal_demand' = zeros(0)
  /\ disaster_demand' = zeros(0)
  /\ UNCHANGED <<greedy_locals, total_capacity, calls>>

\* st.session_state.game_state as game_mode first stores it
InitGame ==
  /\ phase = "setup"
  /\ scenario = None
  /\ user_placements = <<>>
  /\ NoServerCall

NextGame ==
  \/ GamePreview
  \/ GameLock
  \/ GameAddReactor
  \/ GameRemoveReactor
  \/ GameSolve
  \/ GameNewChallenge

SpecGame == InitGame /\ [][NextGame]_vars

\* ------------------------------------------------ vocabulary of the claims
RECURSIVE SetSum(_, _)
\* the sum of f over the finite set S
SetSum(S, f) ==
  IF S = {} THEN 0
  ELSE LET x == CHOOSE y \in S : TRUE IN f[x] + SetSum(S \ {x}, f)

\* in-grid cells within Euclidean distance r of c
Disc(N, c, r) ==
  {d \in Cells(N) : (d[1] - c[1]) * (d[1] - c[1]) + (d[2] - c[2]) * (d[2] - c[2]) <= r * r}

\* cells not yet chosen as a site
Candidates == {c \in Cells(grid_size) : \A n \in 1 .. Len(locations) : locations[n] # c}

\* disaster demand within reach of c that no chosen site covers yet
MarginalScore(c) ==
  SetSum({d \in Disc(grid_size, c, radius) : coverage_map[d] = 0}, disaster_demand)

SomePositiveCandidate == \E c \in Candidates : MarginalScore(c) > 0

\* a step that runs one greedy iteration, and the site it appends
IterationStep == iter' = iter + 1

Appended == locations'[Len(locations')]

\* C1: in an iteration where some not-yet-chosen cell has a positive marginal
\* score, the appended site is a not-yet-chosen cell of maximal score, and the
\* first such cell in row-major order.
C1_ArgmaxFirstRowMajor ==
  [][(IterationStep /\ SomePositiveCandidate) =>
       /\ Appended \in Candidates
       /\ \A c \in Candidates :
            /\ MarginalScore(c) <= MarginalScore(Appended)
            /\ MarginalScore(c) = MarginalScore(Appended) => RowMajorLE(Appended, c)]_vars

\* a run placed a second site after a tie between several maximal candidates
C1_Witness ==
  /\ Len(locations) = 2
  /\ best_score > 0
  /\ Cardinality({c \in DOMAIN scores : scores[c] = best_score}) > 1

\* C2: the score computed for a candidate is the disaster demand of the
\* in-grid cells within the radius that no earlier site covers; exactly the
\* cells not yet chosen are scored.
C2_ScoreIsUncoveredDemand ==
  [][IterationStep =>
       /\ DOMAIN scores' = Candidates
       /\ \A c \in Candidates : scores'[c] = MarginalScore(c)]_vars

\* a second iteration scored a candidate lower than its full disc demand
\* because part of the disc was already covered
C2_Witness ==
  /\ Len(locations) = 2
  /\ \E c \in DOMAIN scores :
       /\ scores[c] > 0
       /\ scores[c] < SetSum(Disc(grid_size, c, radius), disaster_demand)

\* C3: an iteration in which no not-yet-chosen cell has a positive score
\* appends (0,0), also when (0,0) is already in the placement.
C3_FallbackToOrigin ==
  [][(IterationStep /\ ~SomePositiveCandidate) => Appended = <<0, 0>>]_vars

\* (0,0) was appended by a zero-score iteration although it was already a site
C3_Witness ==
  /\ Len(locations) >= 2
  /\ best_score = 0
  /\ locations[Len(locations)] = <<0, 0>>
  /\ \E n \in 1 .. (Len(locations) - 1) : locations[n] = <<0, 0>>
  /\ grid_size > 1

\* C4: every call returns after exactly num_reactors iterations a placement of
\* length num_reactors and both percentages: a returned state holds them, and
\* until then each step either runs the next of at most num_reactors
\* iterations, appending one site, or returns.
C4_ReturnsExactlyK ==
  /\ [](pc = "done" =>
          /\ iter = num_reactors
          /\ Len(locations) = num_reactors
          /\ DOMAIN metrics = {"normal_coverage", "disaster_coverage"})
  /\ [](pc = "loop" => (iter <= num_reactors /\ Len(locations) = iter))
  /\ [][pc = "loop" =>
          \/ (iter < num_reactors /\ iter' = iter + 1 /\ Len(locations') = Len(locations) + 1)
          \/ (iter = num_reactors /\ pc' = "done" /\ locations' = locations)]_vars

\* a run with an all-zero final scan still returned all its sites
C4_Witness ==
  /\ pc = "done"
  /\ num_reactors >= 2
  /\ Len(locations) = num_reactors
  /\ best_score = 0

\* C5: only (0,0) can occur twice in a placement, and a repeated occurrence
\* is appended by an iteration without a positive-score candidate.
C5_OnlyOriginRepeats ==
  /\ [](\A m, n \in 1 .. Len(locations) :
          (m < n /\ locations[m] = locations[n]) => locations[n] = <<0, 0>>)
  /\ [][(IterationStep /\ Appended \notin Candidates) =>
          (Appended = <<0, 0>> /\ ~SomePositiveCandidate)]_vars

\* a placement that holds (0,0) twice after a first site elsewhere
C5_Witness ==
  /\ Len(locations) = 3
  /\ locations[1] # <<0, 0>>
  /\ locations[2] = <<0, 0>>
  /\ locations[3] = <<0, 0>>

\* what optimize_reactors returns for num_reactors + 1 facilities: the loop,
\* which has run num_reactors passes, runs on to num_reactors + 1
MetricsWithOneMore ==
  calc_metrics(grid_size, normal_demand, disaster_demand,
               run_loop(grid_size, disaster_demand, radius, num_reactors + 1, iter,
                        [locations |-> locations, coverage_map |-> coverage_map,
                         best_score |-> best_score, best_pos |-> best_pos,
                         scores |-> scores]).coverage_map)

\* C6: the percentages returned for num_reactors + 1 facilities are at least
\* those returned for num_reactors facilities, on the same surfaces and radius.
C6_CoverageMonotoneInK ==
  pc = "done" =>
    LET more == MetricsWithOneMore
    IN /\ FracLE(metrics.normal_coverage, more.normal_coverage)
       /\ FracLE(metrics.disaster_coverage, more.disaster_coverage)

\* a call whose percentages both grow strictly with one more facility
C6_Witness ==
  /\ pc = "done"
  /\ num_reactors >= 1
  /\ LET more == MetricsWithOneMore
     IN /\ FracLT(metrics.normal_coverage, more.normal_coverage)
        /\ FracLT(metrics.disaster_coverage, more.disaster_coverage)
        /\ FracLT(FracInt(0), metrics.disaster_coverage)

\* -------------------------------------------- vocabulary of the challenge
FracEq(a, b) == FracLE(a, b) /\ FracLE(b, a)

\* cells of demand_map above the significance threshold
SignificantCells(demand_map) ==
  {c \in Cells(grid_size) : demand_map[c] > SignificanceThreshold}

\* cells within Euclidean distance radius of some site of the placement
Reach(sites) ==
  {c \in Cells(grid_size) : \E n \in 1 .. Len(sites) : c \in Disc(grid_size, sites[n], radius)}

\* the coverage percentage of a placement on one surface, the cells at or
\* below the threshold left out of numerator and denominator
ScorePlacement(sites, demand_map) ==
  LET total == SetSum(SignificantCells(demand_map), demand_map)
      covered == SetSum(SignificantCells(demand_map) \cap Reach(sites), demand_map)
  IN IF total > 0 THEN Frac(100 * covered, total) ELSE FracInt(0)

\* the mean of the normal and the disaster percentage of a placement
MeanScore(sites) ==
  FracDiv(FracAdd(ScorePlacement(sites, normal_demand),
                  ScorePlacement(sites, disaster_demand)), FracInt(2))

\* the number of human sites whose coordinate is a coordinate of the optimum
MatchingSites ==
  Cardinality({n \in 1 .. Len(user_placements) :
                 \E m \in 1 .. Len(locations) : locations[m] = user_placements[n]})

Responded == phase = "responded"

\* C7: once a challenge is scored, userAvg and optimalAvg are both the mean of
\* the two percentages of the thresholded routine, for the human and for the
\* optimal placement.
C7_SameRoutineForBoth ==
  Responded =>
    /\ FracEq(user_coverage, MeanScore(user_placements))
    /\ FracEq(optimal_coverage, MeanScore(locations))

\* C8: when the page shows the results of a challenge, the surfaces the server
\* scored on are the surfaces of the preview the player saw.
C8_SolveUsesPreviewedSurfaces ==
  phase = "completed" =>
    /\ normal_demand = scenario[1].base_demand
    /\ disaster_demand = scenario[1].disaster_demand

\* C9: with optimalAvg > 0 the final score is min(100, 100 * userAvg /
\* optimalAvg + 10 * n), n the number of human sites that match a site of the
\* optimum, and it never exceeds 100.
C9_RelativeScore ==
  (Responded /\ FracLT(FracInt(0), optimal_coverage)) =>
    /\ FracEq(final_score,
              FracMin(FracInt(100),
                      FracAdd(FracDiv(FracScale(100, user_coverage), optimal_coverage),
                              FracInt(10 * MatchingSites))))
    /\ FracLE(final_score, FracInt(100))

\* a human placement below the optimum whose matching sites lift it to the cap
C9_Witness ==
  /\ Responded
  /\ FracLT(FracInt(0), user_coverage)
  /\ FracLT(user_coverage, optimal_coverage)
  /\ MatchingSites >= 1
  /\ FracEq(final_score, FracInt(100))

\* C10: with optimalAvg = 0 the final score is 50, whatever the human
\* placement covers and however many of its sites match the optimum.
C10_FallbackFifty ==
  (Responded /\ FracEq(optimal_coverage, FracInt(0))) => FracEq(final_score, FracInt(50))

\* a human placement that covers demand on both surfaces, scored against an
\* optimum that covers nothing
C10_Witness ==
  /\ Responded
  /\ FracEq(optimal_coverage, FracInt(0))
  /\ FracLT(FracInt(0), user_metrics.normal_coverage)
  /\ FracLT(FracInt(0), user_metrics.disaster_coverage)
  /\ Len(user_placements) >= 1
  /\ FracEq(final_score, FracInt(50))

\* C11: for each surface the routine that scores a placement returns
\* 100 * covered / total, total the demand of the cells strictly above the
\* threshold and covered the demand of those of them within Euclidean
\* distance <= radius of some site; cells at or below the threshold count in
\* neither sum.
C11_ScorePlacementFormula ==
  Responded =>
    /\ FracEq(user_metrics.normal_coverage, ScorePlacement(user_placements, normal_demand))
    /\ FracEq(user_metrics.disaster_coverage, ScorePlacement(user_placements, disaster_demand))

\* a placement that covers part of the counted normal demand and reaches a
\* cell whose positive disaster demand is at or below the threshold
C11_Witness ==
  /\ Responded
  /\ FracLT(FracInt(0), user_metrics.normal_coverage)
  /\ FracLT(user_metrics.normal_coverage, FracInt(100))
  /\ \E c \in Reach(user_placements) :
       0 < disaster_demand[c] /\ disaster_demand[c] <= SignificanceThreshold

\* the demand of a surface summed over all cells, and over the cells within
\* reach of the returned placement
TotalDemand(demand_map) == SetSum(Cells(grid_size), demand_map)

CoveredDemand(demand_map) == SetSum(Reach(locations), demand_map)

\* C12: each percentage optimize_reactors returns is 100 times the demand of
\* the covered cells over the demand of all cells of the grid, no threshold
\* applied (stated for a surface of nonzero sum).
C12_MetricsUnthresholded ==
  pc = "done" =>
    /\ TotalDemand(normal_demand) > 0 =>
         FracEq(metrics.normal_coverage,
                Frac(100 * CoveredDemand(normal_demand), TotalDemand(normal_demand)))
    /\ TotalDemand(disaster_demand) > 0 =>
         FracEq(metrics.disaster_coverage,
                Frac(100 * CoveredDemand(disaster_demand), TotalDemand(disaster_demand)))

\* a returned placement that covers part of the disaster demand and leaves
\* out a cell of positive demand at or below 1.0 MW, which the denominator holds
C12_Witness ==
  /\ pc = "done"
  /\ num_reactors >= 1
  /\ FracLT(FracInt(0), metrics.disaster_coverage)
  /\ FracLT(metrics.disaster_coverage, FracInt(100))
  /\ \E c \in Cells(grid_size) \ Reach(locations) :
       0 < disaster_demand[c] /\ disaster_demand[c] <= SignificanceThreshold

\* a request whose parameters break a precondition of the placement call
InvalidParameters ==
  \/ scenario[1].num_reactors < 0
  \/ scenario[1].num_reactors > scenario[1].grid_size * scenario[1].grid_size
  \/ scenario[1].reactor_radius < 0

\* a surface handed to the placement call holds a negative demand
NegativeDemand ==
  \E c \in Cells(grid_size) : normal_demand[c] < 0 \/ disaster_demand[c] < 0

\* C13: a placement call with k < 0, k > R*C or radius < 0 fails and
\* returns no placement: no such request, on surfaces without fault, is
\* answered with a placement.
C13_InvalidParametersRejected ==
  (InvalidParameters /\ ~NegativeDemand) => phase # "responded"

\* C14: a placement call on a surface with a negative demand is rejected and
\* produces neither placement nor metrics, also when its parameters are valid.
C14_NegativeDemandRejected ==
  (NegativeDemand /\ ~InvalidParameters) => phase # "responded"

\* the call of the example: 5x5, disaster zero except 10 at (2,2), k = 1, radius = 1
PeakExampleCall ==
  /\ grid_size = 5
  /\ disaster_demand = PeakSurface(5, <<2, 2>>)
  /\ num_reactors = 1
  /\ radius = 1

\* C15: on a 5x5 grid whose disaster surface is zero except disaster[2,2] = 10,
\* with k = 1 and radius = 1, the returned placement is [(1,2)].
C15_PeakExample ==
  (PeakExampleCall /\ pc = "done") => locations = << <<1, 2>> >>

\* the example call has returned, its one site scored the whole peak
C15_Witness ==
  /\ PeakExampleCall
  /\ pc = "done"
  /\ Len(locations) = 1
  /\ best_score = 100
  /\ Cardinality({c \in DOMAIN scores : scores[c] = best_score}) = 5

\* C16: with k = 0 the call returns an empty placement and 0 for both
\* percentages, whatever the surfaces and the radius.
C16_ZeroFacilities ==
  (pc = "done" /\ num_reactors = 0) =>
    /\ locations = <<>>
    /\ FracEq(metrics.normal_coverage, FracInt(0))
    /\ FracEq(metrics.disaster_coverage, FracInt(0))

\* a call with k = 0 and a positive radius has returned on surfaces that both
\* hold demand
C16_Witness ==
  /\ pc = "done"
  /\ num_reactors = 0
  /\ radius >= 1
  /\ TotalDemand(normal_demand) > 0
  /\ TotalDemand(disaster_demand) > 0
  /\ locations = <<>>

\* the demand of a surface summed over the cells above the threshold
CountedDemand(demand_map) == SetSum(SignificantCells(demand_map), demand_map)

\* C17: for a surface that sums to 0 the optimizer reports exactly 0, and the
\* routine that scores a placement returns 0 for a surface whose counted
\* total is 0, for every k, placement and radius.
C17_ZeroTotalGivesZero ==
  Responded =>
    /\ TotalDemand(normal_demand) = 0 => metrics.normal_coverage = FracInt(0)
    /\ TotalDemand(disaster_demand) = 0 => metrics.disaster_coverage = FracInt(0)
    /\ CountedDemand(normal_demand) = 0 => user_metrics.normal_coverage = FracInt(0)
    /\ CountedDemand(disaster_demand) = 0 => user_metrics.disaster_coverage = FracInt(0)

\* a map without any demand was scored for a human and an optimal placement
\* that both hold sites
C17_Witness ==
  /\ Responded
  /\ grid_size >= 2
  /\ TotalDemand(normal_demand) = 0
  /\ TotalDemand(disaster_demand) = 0
  /\ Len(locations) >= 1
  /\ Len(user_placements) >= 1
  /\ radius >= 1

\* C18: scoring an empty list of sites gives 0 for both percentages, for
\* every surface and radius.
C18_NoSitesScoreZero ==
  (Responded /\ user_placements = <<>>) =>
    /\ FracEq(user_metrics.normal_coverage, FracInt(0))
    /\ FracEq(user_metrics.disaster_coverage, FracInt(0))

\* an empty placement was scored with a positive radius on surfaces that
\* both hold counted demand
C18_Witness ==
  /\ Responded
  /\ user_placements = <<>>
  /\ radius >= 1
  /\ CountedDemand(normal_demand) > 0
  /\ CountedDemand(disaster_demand) > 0

\* p lies in the closed interval [0, 100]
IsPercentage(p) == FracLE(FracInt(0), p) /\ FracLE(p, FracInt(100))

\* C19: on non-negative surfaces every percentage returned by the optimizer
\* and by the routine that scores a placement lies in [0, 100].
C19_PercentagesInRange ==
  (Responded /\ ~NegativeDemand) =>
    /\ IsPercentage(metrics.normal_coverage)
    /\ IsPercentage(metrics.disaster_coverage)
    /\ IsPercentage(user_metrics.normal_coverage)
    /\ IsPercentage(user_metrics.disaster_coverage)

\* an optimum and a human placement of two sites, each covering part of the
\* demand only
C19_Witness ==
  /\ Responded
  /\ ~NegativeDemand
  /\ Len(locations) >= 1
  /\ Len(user_placements) = 2
  /\ FracLT(FracInt(0), metrics.normal_coverage)
  /\ FracLT(metrics.normal_coverage, FracInt(100))
  /\ FracLT(FracInt(0), user_metrics.disaster_coverage)
  /\ FracLT(user_metrics.disaster_coverage, FracInt(100))

\* the second of two calls with the same arguments has returned
SecondCallReturned == pc = "done" /\ scenario # <<>>

CallStep == pc' # pc

ResultAlone(p) ==
  optimize_reactors(calls[p].grid_size, calls[p].normal_demand, calls[p].disaster_demand,
                    calls[p].num_reactors, calls[p].radius, DefaultCapacity)

C24_CoverageMapIsReach ==
  /\ [](/\ \A c \in Cells(grid_size) :
             /\ coverage_map[c] \in {0, 1}
             /\ coverage_map[c] = 1 <=> c \in Reach(locations)
        /\ \A n \in 1 .. Len(locations) : coverage_map[locations[n]] = 1
        /\ radius = 0 =>
             \A c \in Cells(grid_size) : coverage_map[c] = 1 <=> InList(c, locations))
  /\ [][\A c \in Cells(grid_size) : coverage_map[c] = 1 => coverage_map'[c] = 1]_vars

\* two sites are placed with a radius of 1 or more, and a cell in the square
\* of offsets around a site, beyond the radius of both, is left unmarked
C24_Witness ==
  /\ iter = 2
  /\ radius >= 1
  /\ locations[1] # locations[2]
  /\ \E c \in Cells(grid_size) :
       /\ coverage_map[c] = 0
       /\ \E n \in 1 .. 2 :
            /\ Abs(c[1] - locations[n][1]) <= radius
            /\ Abs(c[2] - locations[n][2]) <= radius

\* the disaster demand of the cells the coverage map cov marks
CoveredDisaster(cov) ==
  SetSum({c \in Cells(grid_size) : cov[c] = 1}, disaster_demand)

RECURSIVE BestScoresFrom(_, _)
\* the sum of the best scores of the passes t + 1 .. iter of the run, st the
\* locals after pass t
BestScoresFrom(t, st) ==
  IF t >= iter THEN 0
  ELSE CHOOSE sum \in {after.best_score + BestScoresFrom(t + 1, after) :
                         after \in {greedy_iteration(grid_size, disaster_demand, radius, st)}} :
         TRUE

\* the sum of the best scores of all passes run so far
BestScoresSoFar == BestScoresFrom(0, initial_state(grid_size))

\* C25: on a non-negative disaster surface the disaster demand of the covered
\* cells is 0 before the first greedy iteration and each iteration adds its
\* best score to it, so that in the returned state it is the sum of the best
\* scores of all iterations, and the returned disaster coverage is that sum
\* over the total demand.
C25_CoveredIsSumOfBestScores ==
  /\ []((iter = 0 /\ ~NegativeDemand) => CoveredDisaster(coverage_map) = 0)
  /\ [][(IterationStep /\ ~NegativeDemand) =>
          CoveredDisaster(coverage_map') = CoveredDisaster(coverage_map) + best_score']_vars
  /\ []((pc = "done" /\ ~NegativeDemand) =>
          /\ CoveredDisaster(coverage_map) = BestScoresSoFar
          /\ TotalDemand(disaster_demand) > 0 =>
               FracEq(metrics.disaster_coverage,
                      Frac(100 * CoveredDisaster(coverage_map), TotalDemand(disaster_demand))))

\* a returned run of three passes: the first two covered demand on
\* overlapping discs, the third fell back with score 0
C25_Witness ==
  /\ pc = "done"
  /\ iter = 3
  /\ radius >= 1
  /\ best_score = 0
  /\ CoveredDisaster(coverage_map)
       > SetSum(Disc(grid_size, locations[1], radius), disaster_demand)
  /\ SetSum(Disc(grid_size, locations[1], radius), disaster_demand) > 0
  /\ Disc(grid_size, locations[1], radius) \cap Disc(grid_size, locations[2], radius) # {}

\* C26: on a non-negative disaster surface the best score of a greedy
\* iteration is never greater than the best score of the iteration before it.
C26_BestScoresNonIncreasing ==
  [][(IterationStep /\ iter >= 1 /\ ~NegativeDemand) => best_score' <= best_score]_vars

\* three passes with positive best scores, the last strictly below the demand
\* of the first site's disc, which is the best score of the first pass
C26_Witness ==
  /\ iter = 3
  /\ best_score > 0
  /\ best_score < SetSum(Disc(grid_size, locations[1], radius), disaster_demand)
  /\ locations[2] # <<0, 0>>

\* the percentages optimize_reactors would report for the coverage map cov
MetricsOf(cov) == calc_metrics(grid_size, normal_demand, disaster_demand, cov)

\* C27: on a non-negative disaster surface, an iteration that follows one
\* without a positive score (which fell back to (0,0)) finds none either,
\* appends (0,0) again and leaves the coverage percentages as they were.
C27_FallbackIsAbsorbing ==
  [][(IterationStep /\ iter >= 1 /\ best_score = 0 /\ ~NegativeDemand) =>
       /\ locations[iter] = <<0, 0>>
       /\ best_score' = 0
       /\ Appended = <<0, 0>>
       /\ MetricsOf(coverage_map') = MetricsOf(coverage_map)]_vars

\* after a first site elsewhere two passes fell back to (0,0), the first of
\* them having covered normal demand around (0,0)
C27_Witness ==
  /\ iter = 3
  /\ best_score = 0
  /\ locations[1] # <<0, 0>>
  /\ locations[2] = <<0, 0>>
  /\ locations[3] = <<0, 0>>
  /\ \E c \in Disc(grid_size, <<0, 0>>, radius) \ Disc(grid_size, locations[1], radius) :
       normal_demand[c] > 0
  /\ \E c \in Cells(grid_size) : coverage_map[c] = 0

\* the number of times cell c occurs in the list of sites
Occurrences(c, sites) == Cardinality({n \in 1 .. Len(sites) : sites[n] = c})

\* the human placement holds the sites of the optimum, each as often
IdenticalPlacement ==
  /\ Len(user_placements) = Len(locations)
  /\ \A c \in Cells(grid_size) :
       Occurrences(c, user_placements) = Occurrences(c, locations)

\* C28: with k >= 1 and optimalAvg > 0, a human placement identical to the
\* optimizer's placement is given the final score 100.
C28_IdenticalPlacementScoresFull ==
  (Responded /\ num_reactors >= 1 /\ FracLT(FracInt(0), optimal_coverage)
     /\ IdenticalPlacement) =>
    FracEq(final_score, FracInt(100))

\* C29: after any sequence of add-reactor (typed coordinates, canvas click,
\* auto-place), remove-reactor and clear-last operations the list of user
\* placements has at most num_reactors entries and holds no coordinate twice.
C29_PlacementsBoundedAndDistinct ==
  phase = "playing" =>
    /\ Len(user_placements) <= scenario[1].num_reactors
    /\ \A m, n \in 1 .. Len(user_placements) :
         m # n => user_placements[m] # user_placements[n]

\* the phase of the game state changes in this step
PhaseChanges == phase' # phase

\* C30: the phase of the challenge game changes only along setup -> playing ->
\* completed -> setup; playing is entered only with a previewed scenario in
\* store, which it keeps; completed is entered only by the solve step, taken
\* only while the number of user placements equals num_reactors; a new
\* challenge returns to setup with an empty placement list and no scenario.
C30_PhaseMachine ==
  /\ [](phase \in {"setup", "playing", "completed"})
  /\ [](phase \in {"playing", "completed"} => scenario # None)
  /\ [](phase = "setup" => user_placements = <<>>)
  /\ [][PhaseChanges =>
          \/ /\ phase = "setup" /\ phase' = "playing"
             /\ scenario # None
             /\ scenario' = scenario
          \/ /\ phase = "playing" /\ phase' = "completed"
             /\ Len(user_placements) = scenario[1].num_reactors
             /\ user_placements' = user_placements
             /\ scenario' = scenario
             /\ user_metrics' =
                  calculate_user_performance(scenario[1].grid_size, user_placements,
                                             scenario[1].simulator.base_demand,
                                             scenario[1].disaster_demand,
                                             scenario[1].reactor_radius)
          \/ /\ phase = "completed" /\ phase' = "setup"
             /\ user_placements' = <<>>
             /\ scenario' = None]_vars

\* a game is completed: two reactors were asked for, placed and scored
C30_Witness ==
  /\ phase = "completed"
  /\ scenario # None
  /\ scenario[1].num_reactors = 2
  /\ Len(user_placements) = 2
  /\ locations # <<>>

====
